---- MODULE Spec2Model ----
(***************************************************************************)
(* The intrusive singly-linked list of ccan/slist (slist.h, slist.c) and   *)
(* its users.  Memory is the `next' field of every link; links are named   *)
(* by their addresses, so that the offset arithmetic of slist_top_,        *)
(* slist_pop_ and slist_for_each_off is the arithmetic of the code.        *)
(***************************************************************************)
EXTENDS Integers, Sequences, FiniteSets, TLC

\* Number of owner records (struct child) the callers have.
NumElems == 3

\* The null pointer.
NULL == 0

\* Addresses of the two list heads (&h->n): a static SLIST_HEAD and a head in
\* automatic storage that slist_head_init() sets up.
Heads == {16, 32}
StaticHeads == {16}

\* Addresses of the slist_node member of each owner record.
Elems == {16 * (2 + k) + 8 : k \in 1..NumElems}

Node == Heads \cup Elems
Addr == Node \cup {NULL}

\* What uninitialised storage may hold: an indeterminate pointer, null or the
\* address of some link.
Garbage == {NULL, 16}

\* Offsets of the slist_node member inside the record: offsetof(struct child,
\* slist) in the test, 0 in the typed wrapper.
Offs == {0, 8}

\* No loop body is followed for more visits than this.
MaxVisits == 2 * NumElems + 2

VARIABLES
    next,          \* next[a]: the value of the `next' field of the link at a
    inited,        \* the heads that have been initialised
    num_children,  \* the caller's count of each list (parent.num_children)
    call,          \* the last call of the API that returned, and its result
    it             \* the slist_for_each_off loop in progress, if any

vars == <<next, inited, num_children, call, it>>

-----------------------------------------------------------------------------
(* The functions of slist.h, on a memory `mem'.                            *)

\* slist_head_init storing a null pointer instead of the head's own address.
slist_head_init_Null(mem, h) == [mem EXCEPT ![h] = NULL]

\* h->n.next = &h->n
slist_head_init(mem, h) == [mem EXCEPT ![h] = h]

\* slist_add_ that also stores the new link in the old first entry's next.
slist_add_Clobber(mem, h, n) ==
    LET m1 == [mem EXCEPT ![n] = mem[h]]
        m2 == [m1 EXCEPT ![h] = n]
    IN  [m2 EXCEPT ![mem[h]] = n]

\* slist_add_ without the store to n->next.
slist_add_NoLink(mem, h, n) == [mem EXCEPT ![h] = n]

\* slist_add_ with its two stores in the other order.
slist_add_Swapped(mem, h, n) ==
    LET m1 == [mem EXCEPT ![h] = n]
    IN  [m1 EXCEPT ![n] = m1[h]]

\* n->next = h->n.next; h->n.next = n
slist_add_(mem, h, n) ==
    LET m1 == [mem EXCEPT ![n] = mem[h]]
    IN  [m1 EXCEPT ![h] = n]

\* slist_debug without CCAN_SLIST_DEBUG: ((void)loc, h)
slist_debug(h) == h

\* slist_add_after_ that links the new entry after the head, whatever p is.
slist_add_after_ViaHead(mem, h, p, n) ==
    LET m1 == [mem EXCEPT ![n] = mem[h]]
    IN  [m1 EXCEPT ![h] = n]

\* slist_add_after_ with its two stores in the other order.
slist_add_after_Swapped(mem, h, p, n) ==
    LET m1 == [mem EXCEPT ![p] = n]
    IN  [m1 EXCEPT ![n] = m1[p]]

\* n->next = p->next; p->next = n; (void)slist_debug(h, abortstr), whose
\* value is dropped and which writes nothing without CCAN_SLIST_DEBUG.
slist_add_after_(mem, h, p, n) ==
    LET m1 == [mem EXCEPT ![n] = mem[p]]
    IN  [m1 EXCEPT ![p] = n]

\* slist_empty_ testing for a null-terminated list.
slist_empty_Null(mem, h) == mem[h] = NULL

\* return h->n.next == &h->n
slist_empty_(mem, h) == mem[slist_debug(h)] = h

\* slist_node_to_off_ without the offset.
slist_node_to_off_NoOff(node, off) == node

\* (char *)node - off
slist_node_to_off_(node, off) == node - off

\* slist_node_from_off_ that subtracts the offset.
slist_node_from_off_Minus(ptr, off) == ptr - off

\* (char *)ptr + off
slist_node_from_off_(ptr, off) == ptr + off

\* slist_top_ without the test for the empty list.
slist_top_NoCheck(mem, h, off) == mem[h] - off

\* if (slist_empty(h)) return NULL; return (const char *)h->n.next - off
slist_top_(mem, h, off) ==
    IF slist_empty_(mem, h) THEN NULL ELSE mem[h] - off

\* slist_pop_ without the store to h->n.next.
slist_pop_NoAdvance(mem, h, off) ==
    IF mem[h] = h
    THEN [mem |-> mem, ret |-> NULL]
    ELSE [mem |-> mem, ret |-> mem[h] - off]

\* slist_pop_ that unlinks the first two entries.
slist_pop_SkipTwo(mem, h, off) ==
    IF mem[h] = h
    THEN [mem |-> mem, ret |-> NULL]
    ELSE LET n == mem[h]
         IN  [mem |-> [mem EXCEPT ![h] = mem[mem[n]]], ret |-> n - off]

\* slist_pop_ that also clears the next field of the entry it removes.
slist_pop_Poison(mem, h, off) ==
    IF mem[h] = h
    THEN [mem |-> mem, ret |-> NULL]
    ELSE LET n == mem[h]
         IN  [mem |-> [mem EXCEPT ![h] = mem[n], ![n] = NULL], ret |-> n - off]

\* if (slist_empty(h)) return NULL; n = h->n.next; h->n.next = n->next;
\* return (const char *)n - off
slist_pop_(mem, h, off) ==
    IF slist_empty_(mem, h)
    THEN [mem |-> mem, ret |-> NULL]
    ELSE LET n == mem[h]
         IN  [mem |-> [mem EXCEPT ![h] = mem[n]], ret |-> n - off]

\* slist_entry_or_null without the test for the head.
slist_entry_or_null_NoTest(h, n, off) == n - off

\* if (n == &h->n) return NULL; return (char *)n - off
slist_entry_or_null(h, n, off) == IF n = h THEN NULL ELSE n - off

\* The abort strings a caller passes: NULL, or SLIST_LOC, the address of the
\* string literal __FILE__ ":" stringify(__LINE__).
SLIST_LOC == 1
AbortStrs == {NULL, SLIST_LOC}

\* slist_check_node without CCAN_SLIST_DEBUG: return (struct slist_node *)node
slist_check_node(node, abortstr) == node

\* if (!slist_check_node(&h->n, abortstr)) return NULL; return h
slist_check(h, abortstr) ==
    IF slist_check_node(h, abortstr) = NULL THEN NULL ELSE h

\* The links a complete slist_for_each over h visits, in order: from
\* h->n.next, following next, until &h->n.  `fuel' stops the walk of a chain
\* that never comes back to the head.
RECURSIVE Walk(_, _, _, _)
Walk(mem, h, cur, fuel) ==
    IF cur = h \/ fuel = 0 \/ cur \notin Node
    THEN <<>>
    ELSE <<cur>> \o Walk(mem, h, mem[cur], fuel - 1)

slist_for_each(mem, h) == Walk(mem, h, mem[h], Cardinality(Node))

-----------------------------------------------------------------------------
(* Shape of a chain.                                                       *)

Range(s) == {s[k] : k \in 1..Len(s)}

\* The links reachable from the head h, the head's own link excluded.
Reach(mem, h) == Range(slist_for_each(mem, h))

\* The link the walk from `from' stops at: h when the chain is closed.
RECURSIVE EndOf(_, _, _, _)
EndOf(mem, h, cur, fuel) ==
    IF cur = h \/ fuel = 0 \/ cur \notin Node
    THEN cur
    ELSE EndOf(mem, h, mem[cur], fuel - 1)

\* Hops from the head's link back to the head's link, or -1 if the walk leaves
\* the links or does not come back within as many hops as there are links.
RECURSIVE HopsTo(_, _, _, _)
HopsTo(mem, h, cur, fuel) ==
    IF cur = h THEN 1
    ELSE IF fuel = 0 \/ cur \notin Node THEN -1
    ELSE LET r == HopsTo(mem, h, mem[cur], fuel - 1)
         IN  IF r = -1 THEN -1 ELSE r + 1

Hops(mem, h) == HopsTo(mem, h, mem[h], Cardinality(Node))

NoDup(s) == \A a, b \in 1..Len(s) : a # b => s[a] # s[b]

WellFormed(mem, h) ==
    LET t == slist_for_each(mem, h)
    IN  /\ Hops(mem, h) = Len(t) + 1
        /\ NoDup(t)
        /\ Range(t) \subseteq Elems
        /\ \A e \in Range(t) : EndOf(mem, h, e, Cardinality(Node)) = h

\* A link is in a list when some initialised head reaches it.
InSomeList(mem, n) == \E h \in inited : n \in Reach(mem, h)

-----------------------------------------------------------------------------
(* State after construction: static heads hold SLIST_HEAD_INIT, everything *)
(* else is uninitialised storage.                                          *)

NoCall == [op |-> "SLIST_HEAD", h |-> NULL, p |-> NULL, n |-> NULL,
           off |-> 0, ret |-> NULL]

Idle == [pc |-> "idle", h |-> NULL, off |-> 0, i |-> NULL,
         out |-> <<>>, orig |-> <<>>, brk |-> FALSE, mut |-> {}]

\* SLIST_HEAD_INIT(name): { { &(name).n } }
SLIST_HEAD_INIT(h) == h

Init ==
    /\ next \in [Node -> Garbage]
    /\ \A h \in StaticHeads : next[h] = SLIST_HEAD_INIT(h)
    /\ inited = StaticHeads
    /\ num_children = [h \in Heads |-> 0]
    /\ call = NoCall
    /\ it = Idle

Active == it.pc \in {"test", "body", "step"}

-----------------------------------------------------------------------------
(* The calls of the API, made when no loop is running.                     *)

HeadInit(h) ==
    /\ ~Active
    /\ next' = slist_head_init(next, h)
    /\ inited' = inited \cup {h}
    /\ num_children' = [num_children EXCEPT ![h] = 0]
    /\ call' = [op |-> "init", h |-> h, p |-> NULL, n |-> NULL,
                off |-> 0, ret |-> NULL]
    /\ it' = Idle

Add(h, n) ==
    /\ ~Active
    /\ h \in inited
    /\ next' = slist_add_(next, h, n)
    /\ num_children' = [num_children EXCEPT ![h] = @ + 1]
    /\ call' = [op |-> "add", h |-> h, p |-> NULL, n |-> n,
                off |-> 0, ret |-> NULL]
    /\ it' = Idle
    /\ UNCHANGED inited

AddAfter(h, p, n) ==
    /\ ~Active
    /\ h \in inited
    /\ next' = slist_add_after_(next, h, p, n)
    /\ num_children' = [num_children EXCEPT ![h] = @ + 1]
    /\ call' = [op |-> "add_after", h |-> h, p |-> p, n |-> n,
                off |-> 0, ret |-> NULL]
    /\ it' = Idle
    /\ UNCHANGED inited

Empty(h) ==
    /\ ~Active
    /\ h \in inited
    /\ call' = [op |-> "empty", h |-> h, p |-> NULL, n |-> NULL, off |-> 0,
                ret |-> IF slist_empty_(next, h) THEN 1 ELSE 0]
    /\ it' = Idle
    /\ UNCHANGED <<next, inited, num_children>>

\* slist_top that unlinks the entry it returns.
TopPops(h, off) ==
    /\ ~Active
    /\ h \in inited
    /\ LET r == slist_pop_(next, h, off)
       IN  /\ next' = r.mem
           /\ call' = [op |-> "top", h |-> h, p |-> NULL, n |-> NULL,
                       off |-> off, ret |-> r.ret]
    /\ it' = Idle
    /\ UNCHANGED <<inited, num_children>>

Top(h, off) ==
    /\ ~Active
    /\ h \in inited
    /\ call' = [op |-> "top", h |-> h, p |-> NULL, n |-> NULL, off |-> off,
                ret |-> slist_top_(next, h, off)]
    /\ it' = Idle
    /\ UNCHANGED <<next, inited, num_children>>

Pop(h, off) ==
    /\ ~Active
    /\ h \in inited
    /\ LET r == slist_pop_(next, h, off)
       IN  /\ next' = r.mem
           /\ num_children' =
                  [num_children EXCEPT ![h] = IF r.ret = NULL THEN @ ELSE @ - 1]
           /\ call' = [op |-> "pop", h |-> h, p |-> NULL, n |-> NULL,
                       off |-> off, ret |-> r.ret]
    /\ it' = Idle
    /\ UNCHANGED inited

\* slist_next(h, i, member): slist_entry_or_null(slist_debug(h, ..),
\* (i)->member.next, off), for the record i whose link is at i + off.
SlistNext(h, i, off) ==
    /\ ~Active
    /\ h \in inited
    /\ call' = [op |-> "next", h |-> h, p |-> NULL,
                n |-> slist_node_from_off_(i, off), off |-> off,
                ret |-> slist_entry_or_null(
                            slist_debug(h),
                            next[slist_node_from_off_(i, off)], off)]
    /\ it' = Idle
    /\ UNCHANGED <<next, inited, num_children>>

\* slist_check(h, abortstr)
Check(h, abortstr) ==
    /\ ~Active
    /\ h \in inited
    /\ call' = [op |-> "check", h |-> h, p |-> NULL, n |-> NULL, off |-> 0,
                ret |-> slist_check(h, abortstr)]
    /\ it' = Idle
    /\ UNCHANGED <<next, inited, num_children>>

\* slist_check_node(n, abortstr)
CheckNode(n, abortstr) ==
    /\ ~Active
    /\ call' = [op |-> "check_node", h |-> NULL, p |-> NULL, n |-> n,
                off |-> 0, ret |-> slist_check_node(n, abortstr)]
    /\ it' = Idle
    /\ UNCHANGED <<next, inited, num_children>>

-----------------------------------------------------------------------------
(* slist_for_each_off(h, i, off), one step of the for statement at a time. *)

\* i = slist_node_to_off_(slist_debug(h, SLIST_LOC)->n.next, (off))
ForInit(h, off) ==
    /\ it.pc \in {"idle", "done"}
    /\ h \in inited
    /\ it' = [pc |-> "test", h |-> h, off |-> off,
              i |-> slist_node_to_off_(next[slist_debug(h)], off),
              out |-> <<>>, orig |-> slist_for_each(next, h),
              brk |-> FALSE, mut |-> {}]
    /\ call' = [op |-> "for_each", h |-> h, p |-> NULL, n |-> NULL,
                off |-> off, ret |-> NULL]
    /\ UNCHANGED <<next, inited, num_children>>

\* slist_node_from_off_((void *)i, (off)) != &(h)->n
ForTest ==
    /\ it.pc = "test"
    /\ it' = [it EXCEPT !.pc =
                 IF slist_node_from_off_(it.i, it.off) # it.h
                 THEN "body" ELSE "done"]
    /\ UNCHANGED <<next, inited, num_children, call>>

\* The body is handed i.
Visit == IF Len(it.out) < MaxVisits THEN Append(it.out, it.i) ELSE it.out

\* A body that only looks at i.
BodyLook ==
    /\ it.pc = "body"
    /\ it' = [it EXCEPT !.pc = "step", !.out = Visit]
    /\ UNCHANGED <<next, inited, num_children, call>>

\* A body that ends with break.
BodyBreak ==
    /\ it.pc = "body"
    /\ it' = [it EXCEPT !.pc = "done", !.out = Visit, !.brk = TRUE]
    /\ UNCHANGED <<next, inited, num_children, call>>

\* The link of the record the body was handed.
Cur == slist_node_from_off_(it.i, it.off)

\* A body that calls slist_pop on the list while i is its first entry.
BodyPop ==
    /\ it.pc = "body"
    /\ next[it.h] = Cur
    /\ LET r == slist_pop_(next, it.h, it.off)
       IN  /\ next' = r.mem
           /\ num_children' = [num_children EXCEPT
                                  ![it.h] = IF r.ret = NULL THEN @ ELSE @ - 1]
           /\ call' = [op |-> "pop", h |-> it.h, p |-> NULL, n |-> NULL,
                       off |-> it.off, ret |-> r.ret]
    /\ it' = [it EXCEPT !.pc = "step", !.out = Visit,
                        !.mut = @ \cup {"pop"}]
    /\ UNCHANGED inited

\* A body that calls slist_add_after(h, &i->member, n) with a new entry n.
BodyAddAfter(n) ==
    /\ it.pc = "body"
    /\ next' = slist_add_after_(next, it.h, Cur, n)
    /\ num_children' = [num_children EXCEPT ![it.h] = @ + 1]
    /\ call' = [op |-> "add_after", h |-> it.h, p |-> Cur, n |-> n,
                off |-> 0, ret |-> NULL]
    /\ it' = [it EXCEPT !.pc = "step", !.out = Visit,
                        !.mut = @ \cup {IF n \in Range(it.orig)
                                        THEN "reinsert" ELSE "add_after"}]
    /\ UNCHANGED inited

\* A body that moves i to the list h2: slist_pop while i is the first entry
\* of h, then slist_add(h2, &i->member).
BodyMove(h2) ==
    /\ it.pc = "body"
    /\ next[it.h] = Cur
    /\ h2 \in inited \ {it.h}
    /\ LET r == slist_pop_(next, it.h, it.off)
       IN  /\ next' = slist_add_(r.mem, h2, Cur)
           /\ num_children' = [num_children EXCEPT
                                  ![it.h] = IF r.ret = NULL THEN @ ELSE @ - 1,
                                  ![h2] = @ + 1]
    /\ call' = [op |-> "add", h |-> h2, p |-> NULL, n |-> Cur,
                off |-> 0, ret |-> NULL]
    /\ it' = [it EXCEPT !.pc = "step", !.out = Visit,
                        !.mut = @ \cup {"move"}]
    /\ UNCHANGED inited

\* i = slist_node_to_off_(slist_node_from_off_((void *)i, (off))->next, (off))
ForAdvance ==
    /\ it.pc = "step"
    /\ it' = [it EXCEPT !.pc = "test",
                        !.i = slist_node_to_off_(
                                  next[slist_node_from_off_(it.i, it.off)],
                                  it.off)]
    /\ UNCHANGED <<next, inited, num_children, call>>

-----------------------------------------------------------------------------
(* Callers that keep to the documented use: a link is added to one list at *)
(* a time, and slist_add_after is given a member of the list.              *)

MayAdd(n) == n \in Elems /\ ~InSomeList(next, n)

MayAddAfter(h, p) == p \in Reach(next, h) \cup {h}

Next ==
    \/ \E h \in Heads : HeadInit(h)
    \/ \E h \in Heads, n \in Elems : MayAdd(n) /\ Add(h, n)
    \/ \E h \in Heads, p \in Node, n \in Elems :
           MayAddAfter(h, p) /\ MayAdd(n) /\ AddAfter(h, p, n)
    \/ \E h \in Heads : Empty(h)
    \/ \E h \in Heads, off \in Offs : Top(h, off)
    \/ \E h \in Heads, off \in Offs : Pop(h, off)
    \/ \E h \in Heads, off \in Offs : ForInit(h, off)
    \/ ForTest
    \/ BodyLook
    \/ BodyBreak
    \/ ForAdvance

Spec == Init /\ [][Next]_vars

\* The for statement keeps running once entered.
LoopStep == ForTest \/ BodyLook \/ BodyBreak \/ ForAdvance

SpecFair == Spec /\ WF_vars(LoopStep)

\* The same callers, who also call slist_next on the entries of a list and the
\* checker on heads and on entries.
NextObs ==
    \/ Next
    \/ \E h \in Heads, n \in Elems, off \in Offs :
           n \in Reach(next, h)
               /\ SlistNext(h, slist_node_to_off_(n, off), off)
    \/ \E h \in Heads, abortstr \in AbortStrs : Check(h, abortstr)
    \/ \E n \in Elems, abortstr \in AbortStrs :
           InSomeList(next, n) /\ CheckNode(n, abortstr)

SpecObs == Init /\ [][NextObs]_vars

\* The same callers, with loop bodies that change the entry they were handed.
NextMut ==
    \/ Next
    \/ BodyPop
    \/ \E n \in Elems :
           it.pc = "body" /\ MayAddAfter(it.h, Cur) /\ MayAdd(n)
               /\ BodyAddAfter(n)
    \/ \E h2 \in Heads : BodyMove(h2)

SpecMut == Init /\ [][NextMut]_vars

\* Callers that hand slist_add any link, whether or not it is in a list.
\* They are followed up to the first call that leaves some list malformed.
Sane == \A h \in inited : WellFormed(next, h)

NextRaw ==
    \/ Sane /\ Next
    \/ \E h \in Heads, n \in Elems : Sane /\ Add(h, n)

SpecRaw == Init /\ [][NextRaw]_vars

\* Callers that hand slist_add_after any two entries, whether or not p is a
\* member of the list h and whether or not n is in a list.  They are followed
\* up to the first call that leaves some list malformed or that leaves the
\* caller's count of a list different from the number of its entries.
Counted == \A h \in inited : num_children[h] = Len(slist_for_each(next, h))

NextAfter ==
    \/ \E h \in Heads : Sane /\ Counted /\ HeadInit(h)
    \/ \E h \in Heads, n \in Elems : Sane /\ Counted /\ MayAdd(n) /\ Add(h, n)
    \/ \E h \in Heads, off \in Offs : Sane /\ Counted /\ Pop(h, off)
    \/ \E h \in Heads, p \in Elems, n \in Elems :
           Sane /\ Counted /\ AddAfter(h, p, n)

SpecAfter == Init /\ [][NextAfter]_vars

-----------------------------------------------------------------------------
(* The build with CCAN_SLIST_DEBUG defined.  slist_check_node compares       *)
(* n->prev, a member that struct slist_node does not declare and that no     *)
(* operation stores: with the member added, what a read of it yields is one  *)
(* of the values storage that was never written can hold, and zero in a      *)
(* statically allocated head.                                                *)

\* The links slist_check_node(node) reads prev of: node and the links its
\* walk passes.
CheckedLinks(mem, node) ==
    {node} \cup Range(Walk(mem, node, mem[node], Cardinality(Node)))

\* The values the reads of prev yield during one call of the checker on node.
PrevReads(mem, node) ==
    {pv \in [CheckedLinks(mem, node) -> Garbage] :
        \A h \in StaticHeads \cap CheckedLinks(mem, node) : pv[h] = NULL}

\* abort() was called: the call does not return.
ABORTED == -1

\* corrupt that never calls abort().
corrupt_NoAbort(abortstr) == NULL

\* if (abortstr) { fprintf(stderr, ...); abort(); } return NULL
corrupt(abortstr) == IF abortstr # NULL THEN ABORTED ELSE NULL

\* for (p = node, n = node->next; n != node; p = n, n = n->next)
\*     if (n->prev != p) return corrupt(abortstr, node, n, count);
\* if (node->prev != p) return corrupt(abortstr, node, node, 0);
\* return (struct slist_node *)node
\* A walk that leaves the links, or that `fuel' stops, does not return.
RECURSIVE slist_check_walk(_, _, _, _, _, _, _)
slist_check_walk(mem, pv, node, abortstr, p, n, fuel) ==
    IF n = node
    THEN IF pv[node] # p THEN corrupt(abortstr) ELSE node
    ELSE IF fuel = 0 \/ n \notin Node THEN ABORTED
    ELSE IF pv[n] # p THEN corrupt(abortstr)
    ELSE slist_check_walk(mem, pv, node, abortstr, n, mem[n], fuel - 1)

\* slist_check_node with CCAN_SLIST_DEBUG.
slist_check_node_debug(mem, pv, node, abortstr) ==
    slist_check_walk(mem, pv, node, abortstr, node, mem[node],
                     Cardinality(Node))

\* if (!slist_check_node(&h->n, abortstr)) return NULL; return h
slist_check_debug(mem, pv, h, abortstr) ==
    LET r == slist_check_node_debug(mem, pv, h, abortstr)
    IN  IF r = ABORTED THEN ABORTED
        ELSE IF r = NULL THEN NULL
        ELSE h

\* The process was ended by abort().
Aborted == call.op = "abort"

\* The record of a call that ended in abort().
AbortCall(h, n) == [op |-> "abort", h |-> h, p |-> NULL, n |-> n,
                    off |-> 0, ret |-> NULL]

\* slist_check(h, abortstr)
DebugCheck(h, abortstr, pv) ==
    /\ ~Aborted
    /\ h \in inited
    /\ LET r == slist_check_debug(next, pv, h, abortstr)
       IN  call' = IF r = ABORTED
                   THEN AbortCall(h, NULL)
                   ELSE [op |-> "check", h |-> h, p |-> NULL, n |-> NULL,
                         off |-> 0, ret |-> r]
    /\ UNCHANGED <<next, inited, num_children, it>>

\* slist_check_node(n, abortstr)
DebugCheckNode(n, abortstr, pv) ==
    /\ ~Aborted
    /\ LET r == slist_check_node_debug(next, pv, n, abortstr)
       IN  call' = IF r = ABORTED
                   THEN AbortCall(NULL, n)
                   ELSE [op |-> "check_node", h |-> NULL, p |-> NULL,
                         n |-> n, off |-> 0, ret |-> r]
    /\ UNCHANGED <<next, inited, num_children, it>>

\* slist_empty(h): (void)slist_debug(h, SLIST_LOC), then the test.
DebugEmpty(h, pv) ==
    /\ ~Aborted
    /\ h \in inited
    /\ call' = IF slist_check_debug(next, pv, h, SLIST_LOC) = ABORTED
               THEN AbortCall(h, NULL)
               ELSE [op |-> "empty", h |-> h, p |-> NULL, n |-> NULL,
                     off |-> 0,
                     ret |-> IF slist_empty_(next, h) THEN 1 ELSE 0]
    /\ UNCHANGED <<next, inited, num_children, it>>

\* slist_pop_(h, off): its slist_empty(h) runs the checker first.
DebugPop(h, off, pv) ==
    /\ ~Aborted
    /\ h \in inited
    /\ IF slist_check_debug(next, pv, h, SLIST_LOC) = ABORTED
       THEN /\ call' = AbortCall(h, NULL)
            /\ UNCHANGED <<next, num_children>>
       ELSE LET r == slist_pop_(next, h, off)
            IN  /\ next' = r.mem
                /\ num_children' = [num_children EXCEPT
                       ![h] = IF r.ret = NULL THEN @ ELSE @ - 1]
                /\ call' = [op |-> "pop", h |-> h, p |-> NULL, n |-> NULL,
                            off |-> off, ret |-> r.ret]
    /\ UNCHANGED <<inited, it>>

\* slist_add_after_(h, p, n, SLIST_LOC): the two stores, then the checker.
DebugAddAfter(h, p, n, pv) ==
    /\ ~Aborted
    /\ h \in inited
    /\ next' = slist_add_after_(next, h, p, n)
    /\ num_children' = [num_children EXCEPT ![h] = @ + 1]
    /\ call' = IF slist_check_debug(next', pv, h, SLIST_LOC) = ABORTED
               THEN AbortCall(h, n)
               ELSE [op |-> "add_after", h |-> h, p |-> p, n |-> n,
                     off |-> 0, ret |-> NULL]
    /\ UNCHANGED <<inited, it>>

\* Callers that keep to the documented use, in the debug build.
NextDebug ==
    \/ \E h \in Heads : ~Aborted /\ HeadInit(h)
    \/ \E h \in Heads, n \in Elems : ~Aborted /\ MayAdd(n) /\ Add(h, n)
    \/ \E h \in Heads, p \in Node, n \in Elems :
           /\ MayAddAfter(h, p)
           /\ MayAdd(n)
           /\ \E pv \in PrevReads(slist_add_after_(next, h, p, n), h) :
                  DebugAddAfter(h, p, n, pv)
    \/ \E h \in Heads : \E pv \in PrevReads(next, h) : DebugEmpty(h, pv)
    \/ \E h \in Heads, off \in Offs :
           \E pv \in PrevReads(next, h) : DebugPop(h, off, pv)
    \/ \E h \in Heads, abortstr \in AbortStrs :
           \E pv \in PrevReads(next, h) : DebugCheck(h, abortstr, pv)
    \/ \E n \in Elems, abortstr \in AbortStrs :
           /\ InSomeList(next, n)
           /\ \E pv \in PrevReads(next, n) : DebugCheckNode(n, abortstr, pv)

SpecDebug == Init /\ [][NextDebug]_vars

-----------------------------------------------------------------------------
(* tslist2: the typed list.  TSLIST2(etype, link) wraps a struct slist_head  *)
(* and binds the offset of link in etype; its operations take and give       *)
(* records.  The tcon macros are those of ccan/tcon.                         *)

\* tcon_unwrap(h): the wrapped struct slist_head.
tcon_unwrap(h) == h

\* tcon_member_of(h, canary, n): &n->link
tcon_member_of(n, off) == n + off

\* tcon_container_of(h, canary, ptr): the record of the member at ptr, NULL
\* for NULL.
tcon_container_of(ptr, off) == IF ptr = NULL THEN NULL ELSE ptr - off

\* tcon_unwrap(tcon_container_check_ptr(h, canary, expr))
tslist2_raw(h) == tcon_unwrap(h)

\* slist_head_init(tcon_unwrap(h))
tslist2_init(mem, h) == slist_head_init(mem, tcon_unwrap(h))

\* slist_add(tslist2_raw((h), (n)), tcon_member_of(h, canary, n))
tslist2_add(mem, h, n, off) ==
    slist_add_(mem, tslist2_raw(h), tcon_member_of(n, off))

\* slist_add_after(tslist2_raw((h), (n)), tcon_member_of((h), canary, (p)),
\*                 tcon_member_of((h), canary, (n)))
tslist2_add_after(mem, h, p, n, off) ==
    slist_add_after_(mem, tslist2_raw(h), tcon_member_of(p, off),
                     tcon_member_of(n, off))

\* slist_empty(tcon_unwrap(h))
tslist2_empty(mem, h) == slist_empty_(mem, tcon_unwrap(h))

\* tcon_container_of((h), canary, slist_top_(tcon_unwrap(h), 0))
tslist2_top(mem, h, off) ==
    tcon_container_of(slist_top_(mem, tcon_unwrap(h), 0), off)

\* tcon_container_of((h), canary, slist_pop_(tcon_unwrap(h), 0))
tslist2_pop(mem, h, off) ==
    LET r == slist_pop_(mem, tcon_unwrap(h), 0)
    IN  [mem |-> r.mem, ret |-> tcon_container_of(r.ret, off)]

\* What slist.h defines for its callers.
RawOps == {"slist_head_init", "slist_add", "slist_add_", "slist_add_after",
           "slist_add_after_", "slist_empty", "slist_empty_", "slist_top",
           "slist_top_", "slist_pop", "slist_pop_", "slist_for_each",
           "slist_for_each_off", "slist_next"}

\* What each operation of tslist2.h expands to a call of.
Delegates == [tslist2_init      |-> "slist_head_init",
              tslist2_add       |-> "slist_add",
              tslist2_add_after |-> "slist_add_after",
              tslist2_del_from  |-> "slist_del_from",
              tslist2_empty     |-> "slist_empty",
              tslist2_top       |-> "slist_top_",
              tslist2_pop       |-> "slist_pop_",
              tslist2_for_each  |-> "slist_for_each_off"]

TsInit(h) ==
    /\ ~Active
    /\ next' = tslist2_init(next, h)
    /\ inited' = inited \cup {h}
    /\ num_children' = [num_children EXCEPT ![h] = 0]
    /\ call' = [op |-> "init", h |-> h, p |-> NULL, n |-> NULL,
                off |-> 0, ret |-> NULL]
    /\ it' = Idle

TsAdd(h, n, off) ==
    /\ ~Active
    /\ h \in inited
    /\ next' = tslist2_add(next, h, n, off)
    /\ num_children' = [num_children EXCEPT ![h] = @ + 1]
    /\ call' = [op |-> "add", h |-> h, p |-> NULL,
                n |-> tcon_member_of(n, off), off |-> 0, ret |-> NULL]
    /\ it' = Idle
    /\ UNCHANGED inited

TsAddAfter(h, p, n, off) ==
    /\ ~Active
    /\ h \in inited
    /\ next' = tslist2_add_after(next, h, p, n, off)
    /\ num_children' = [num_children EXCEPT ![h] = @ + 1]
    /\ call' = [op |-> "add_after", h |-> h, p |-> tcon_member_of(p, off),
                n |-> tcon_member_of(n, off), off |-> 0, ret |-> NULL]
    /\ it' = Idle
    /\ UNCHANGED inited

TsEmpty(h) ==
    /\ ~Active
    /\ h \in inited
    /\ call' = [op |-> "empty", h |-> h, p |-> NULL, n |-> NULL, off |-> 0,
                ret |-> IF tslist2_empty(next, h) THEN 1 ELSE 0]
    /\ it' = Idle
    /\ UNCHANGED <<next, inited, num_children>>

TsTop(h, off) ==
    /\ ~Active
    /\ h \in inited
    /\ call' = [op |-> "top", h |-> h, p |-> NULL, n |-> NULL, off |-> off,
                ret |-> tslist2_top(next, h, off)]
    /\ it' = Idle
    /\ UNCHANGED <<next, inited, num_children>>

TsPop(h, off) ==
    /\ ~Active
    /\ h \in inited
    /\ LET r == tslist2_pop(next, h, off)
       IN  /\ next' = r.mem
           /\ num_children' =
                  [num_children EXCEPT ![h] = IF r.ret = NULL THEN @ ELSE @ - 1]
           /\ call' = [op |-> "pop", h |-> h, p |-> NULL, n |-> NULL,
                       off |-> off, ret |-> r.ret]
    /\ it' = Idle
    /\ UNCHANGED inited

\* slist_for_each_off(tslist2_raw((h), (i)), (i), tcon_offset((h), canary))
TsForEach(h, off) == ForInit(tslist2_raw(h), off)

\* Callers of the typed list who keep to the documented use.  Nothing stands
\* for tslist2_del_from: it expands to a call of slist_del_from, which
\* slist.h does not define.
NextWrap ==
    \/ \E h \in Heads : TsInit(h)
    \/ \E h \in Heads, n \in Elems, off \in Offs :
           MayAdd(n) /\ TsAdd(h, slist_node_to_off_(n, off), off)
    \/ \E h \in Heads, p \in Elems, n \in Elems, off \in Offs :
           /\ MayAddAfter(h, p)
           /\ MayAdd(n)
           /\ TsAddAfter(h, slist_node_to_off_(p, off),
                         slist_node_to_off_(n, off), off)
    \/ \E h \in Heads : TsEmpty(h)
    \/ \E h \in Heads, off \in Offs : TsTop(h, off)
    \/ \E h \in Heads, off \in Offs : TsPop(h, off)
    \/ \E h \in Heads, off \in Offs : TsForEach(h, off)
    \/ ForTest
    \/ BodyLook
    \/ BodyBreak
    \/ ForAdvance

SpecWrap == Init /\ [][NextWrap]_vars

-----------------------------------------------------------------------------
(* Properties.                                                              *)

\* The links slist_for_each visits on the list h, in the current memory.
T(h) == slist_for_each(next, h)

IsPrefix(a, b) == Len(a) <= Len(b) /\ \A k \in 1..Len(a) : a[k] = b[k]

\* C1: after any sequence of init, prepend, insert_after and pop_first made
\* by callers that keep to the documented use, every list is a closed chain:
\* from the head's link the head's link is reached again after exactly
\* (number of live entries + 1) hops, no link is met twice on the way, only
\* entries are met, and from every live entry the head is reached again.
C1_ChainWellFormed ==
    \A h \in inited :
        /\ Hops(next, h) = num_children[h] + 1
        /\ NoDup(T(h))
        /\ Range(T(h)) \subseteq Elems
        /\ \A e \in Range(T(h)) : EndOf(next, h, e, Cardinality(Node)) = h

\* A list of two entries left by a successful pop: three entries had been
\* linked by prepend or insert_after.
C1_Witness ==
    /\ call.op = "pop"
    /\ call.ret # NULL
    /\ num_children[call.h] = 2
    /\ Hops(next, call.h) = 3

\* C2: prepend is LIFO: on a well-formed list with traversal order t, the
\* prepend of an entry x that is not in the list gives the order x, t.
C2_PrependLIFO ==
    [][\A h \in Heads, n \in Elems :
          (Add(h, n) /\ WellFormed(next, h) /\ n \notin Reach(next, h))
              => slist_for_each(next', h) = <<n>> \o slist_for_each(next, h)
      ]_vars

\* The third prepend in a row: the entry just added is first of three.
C2_Witness ==
    /\ call.op = "add"
    /\ Len(T(call.h)) = 3
    /\ T(call.h)[1] = call.n

\* C3: pop_first on a well-formed list e1, e2, .., en returns e1, which is
\* what first returned, and leaves the list e2, .., en with first returning
\* e2 (NULL when n = 1); on an empty list it returns NULL and writes nothing.
C3_PopFirst ==
    [][\A h \in Heads, off \in Offs :
          (Pop(h, off) /\ WellFormed(next, h)) =>
              LET t == slist_for_each(next, h)
              IN  IF t = <<>>
                  THEN call'.ret = NULL /\ next' = next
                  ELSE /\ call'.ret = t[1] - off
                       /\ call'.ret = slist_top_(next, h, off)
                       /\ slist_for_each(next', h) = Tail(t)
                       /\ slist_top_(next', h, off) =
                              IF Len(t) = 1 THEN NULL ELSE t[2] - off
      ]_vars

\* A pop that returned the first of three entries.
C3_Witness ==
    /\ call.op = "pop"
    /\ call.ret # NULL
    /\ Len(T(call.h)) = 2
    /\ slist_top_(next, call.h, call.off) = T(call.h)[1] - call.off

\* A head is fresh right after its static initialiser or slist_head_init.
FreshHead(h) ==
    \/ call.op = "SLIST_HEAD" /\ h \in StaticHeads
    \/ call.op = "init" /\ call.h = h

\* C4: on a freshly initialised head is_empty is true, first and pop_first
\* return NULL, and the head is still empty after each of these calls.
C4_FreshHeadEmpty ==
    [][\A h \in Heads :
          FreshHead(h) =>
              /\ slist_empty_(next, h)
              /\ \A off \in Offs : slist_top_(next, h, off) = NULL
              /\ Empty(h) => (call'.ret = 1 /\ slist_empty_(next', h))
              /\ \A off \in Offs :
                     Top(h, off) => (call'.ret = NULL /\ slist_empty_(next', h))
              /\ \A off \in Offs :
                     Pop(h, off) => (call'.ret = NULL /\ slist_empty_(next', h))
      ]_vars

\* pop_first has returned NULL on the head slist_head_init set up, with no
\* entry ever linked.
C4_Witness ==
    /\ call.op = "pop"
    /\ call.ret = NULL
    /\ call.h \notin StaticHeads
    /\ slist_empty_(next, call.h)
    /\ \A e \in Elems : next[e] \in Garbage

\* C5: pop_first on a non-empty well-formed list, then prepend of the entry
\* it returned, restores the traversal order and the next field of every
\* link.
C5_PopThenPrepend ==
    [][\A h \in Heads, off \in Offs :
          (Pop(h, off) /\ WellFormed(next, h) /\ call'.ret # NULL) =>
              LET n == slist_node_from_off_(call'.ret, off)
              IN  /\ n \in Elems
                  /\ ~InSomeList(next', n)
                  /\ slist_add_(next', h, n) = next
                  /\ slist_for_each(slist_add_(next', h, n), h) =
                         slist_for_each(next, h)
      ]_vars

\* A pop after which the prepend of the returned entry gives three entries.
C5_Witness ==
    /\ call.op = "pop"
    /\ call.ret # NULL
    /\ Len(slist_for_each(
               slist_add_(next, call.h,
                          slist_node_from_off_(call.ret, call.off)),
               call.h)) = 3

\* Position of the link p in the sequence t, 0 if it is not there.
IndexOf(t, p) ==
    IF p \in Range(t) THEN CHOOSE k \in 1..Len(t) : t[k] = p ELSE 0

\* C6: insert_after(head, p, n) with p in the list and n not in it puts n
\* right after p: the order .., p, q, .. becomes .., p, n, q, .., every other
\* entry keeps its place and there is one entry more; if p was last, n is
\* last and its next is the head's link.
C6_InsertAfter ==
    [][\A h \in Heads, p \in Elems, n \in Elems :
          (AddAfter(h, p, n) /\ WellFormed(next, h)
               /\ p \in Reach(next, h) /\ n \notin Reach(next, h)) =>
              LET t  == slist_for_each(next, h)
                  k  == IndexOf(t, p)
                  t2 == slist_for_each(next', h)
              IN  /\ t2 = SubSeq(t, 1, k) \o <<n>> \o SubSeq(t, k + 1, Len(t))
                  /\ Len(t2) = Len(t) + 1
                  /\ k = Len(t) => (t2[Len(t2)] = n /\ next'[n] = h)
      ]_vars

\* An insert_after that put the new entry between two entries.
C6_Witness ==
    /\ call.op = "add_after"
    /\ Len(T(call.h)) = 3
    /\ T(call.h)[1] = call.p
    /\ T(call.h)[2] = call.n

\* C7: a traversal yields as many entries as were linked and not yet popped:
\* k after k prepends on an empty list, none after k more successful pops,
\* and then is_empty is true.
C7_Cardinality ==
    \A h \in inited :
        /\ Len(T(h)) = num_children[h]
        /\ num_children[h] = 0 => (slist_empty_(next, h) /\ T(h) = <<>>)

\* An empty list after a successful pop, with the stale next fields of the
\* entries still showing the chain that was popped entry by entry.
C7_Witness ==
    /\ call.op = "pop"
    /\ call.ret # NULL
    /\ num_children[call.h] = 0
    /\ slist_empty_(next, call.h)
    /\ \E f \in [1..NumElems -> Elems] :
           /\ \A a, b \in 1..NumElems : a # b => f[a] # f[b]
           /\ \A a \in 1..(NumElems - 1) : next[f[a]] = f[a + 1]
           /\ next[f[NumElems]] = call.h

\* The loop in progress is where a walk of the chain in order would be.
TraversalOK ==
    it.pc # "idle" =>
        LET t == T(it.h)
            n == Len(it.out)
        IN  /\ n <= Len(t)
            /\ \A k \in 1..n : it.out[k] = t[k] - it.off
            /\ \A k \in 1..n : it.out[k] + it.off # it.h
            /\ NoDup(it.out)
            /\ it.pc = "test" =>
                   it.i + it.off = (IF n = Len(t) THEN it.h ELSE t[n + 1])
            /\ it.pc = "body" => (n < Len(t) /\ it.i + it.off = t[n + 1])
            /\ it.pc = "step" => (n >= 1 /\ it.i + it.off = t[n])
            /\ (it.pc = "done" /\ ~it.brk) =>
                   /\ n = Len(t)
                   /\ n = num_children[it.h]
                   /\ it.i + it.off = it.h
            /\ (it.pc = "done" /\ it.brk) => n >= 1

\* C8: a traversal of a list built by the documented operations starts at the
\* entry after the head, hands the body each live entry exactly once in chain
\* order, never hands it the head's own link, stops exactly when the position
\* is the head's link, after as many bodies as there are live entries, and
\* always comes to its end.
C8_TraversalTerminates ==
    /\ []TraversalOK
    /\ (Active ~> it.pc = "done")

\* A loop over three entries that ran to its end.
C8_Witness ==
    /\ it.pc = "done"
    /\ ~it.brk
    /\ Len(it.out) = 3
    /\ it.off = 8

\* C9 as stated: prepend of any link at all, one that is in the list
\* included, leaves a well-formed list with the link first.
C9_AnyLink ==
    [][\A h \in Heads, n \in Elems :
          (Add(h, n) /\ WellFormed(next, h)) =>
              /\ next'[n] = next[h]
              /\ next'[h] = n
              /\ WellFormed(next', h)
              /\ slist_for_each(next', h)[1] = n
      ]_vars

\* C9, amended: whatever the next field of the link held, after prepend the
\* head's next is the link and the link's next is the old first link; and if
\* the link was not reachable from this head, the list is well-formed, with
\* the link first and the old entries after it.
C9_Overwritten ==
    [][\A h \in Heads, n \in Elems :
          (Add(h, n) /\ WellFormed(next, h)) =>
              /\ next'[n] = next[h]
              /\ next'[h] = n
              /\ n \notin Reach(next, h) =>
                     /\ WellFormed(next', h)
                     /\ slist_for_each(next', h) =
                            <<n>> \o slist_for_each(next, h)
      ]_vars

\* A prepend of a link that was in the other list: this list is well-formed,
\* the other one no longer is.
C9_Witness ==
    /\ call.op = "add"
    /\ WellFormed(next, call.h)
    /\ T(call.h)[1] = call.n
    /\ \E h2 \in inited \ {call.h} : ~WellFormed(next, h2)

\* The links the loop has handed to its body.
Visited == [k \in 1..Len(it.out) |-> it.out[k] + it.off]

\* Those of them that were in the list when the loop started.
VisitedOfOrig == SelectSeq(Visited, LAMBDA x : x \in Range(it.orig))

\* Every visit is of an entry, no entry is visited twice, the entries of the
\* original list are visited in their order, and all of them once the loop
\* has run to its end.
MutationSafe ==
    /\ Range(Visited) \subseteq Elems
    /\ NoDup(Visited)
    /\ IsPrefix(VisitedOfOrig, it.orig)
    /\ (it.pc = "done" /\ ~it.brk) => VisitedOfOrig = it.orig

C11_EmptyIff ==
    /\ \A h \in inited :
           /\ slist_empty_(next, h) <=> next[h] = h
           /\ slist_empty_(next, h) <=> T(h) = <<>>
           /\ \A off \in Offs :
                  slist_empty_(next, h) <=> slist_top_(next, h, off) = NULL
    /\ call.op \in {"add", "add_after"} => ~slist_empty_(next, call.h)

\* An insert_after has left its list non-empty while the other list is
\* empty.
C11_Witness ==
    /\ call.op = "add_after"
    /\ ~slist_empty_(next, call.h)
    /\ \E h2 \in inited \ {call.h} :
           slist_empty_(next, h2) /\ slist_top_(next, h2, 8) = NULL

\* A step of an observer: is_empty, first, slist_next, the checker, or a step
\* of a loop whose body only looks at the entry or breaks.
ObserverStep ==
    \/ \E h \in Heads : Empty(h)
    \/ \E h \in Heads, off \in Offs : Top(h, off)
    \/ \E h \in Heads, n \in Elems, off \in Offs :
           SlistNext(h, slist_node_to_off_(n, off), off)
    \/ \E h \in Heads, abortstr \in AbortStrs : Check(h, abortstr)
    \/ \E n \in Elems, abortstr \in AbortStrs : CheckNode(n, abortstr)
    \/ \E h \in Heads, off \in Offs : ForInit(h, off)
    \/ ForTest
    \/ BodyLook
    \/ BodyBreak
    \/ ForAdvance

\* C12: observers never change the chain: is_empty, first, slist_next, the
\* checker and every step of a loop that does not mutate, run to its end or
\* broken out of, leave the head's link and every entry's next as they were,
\* so that the observers give the same results when called again.
C12_ObserversFrame ==
    [][ObserverStep =>
          /\ next' = next
          /\ \A h \in inited :
                 /\ slist_empty_(next', h) = slist_empty_(next, h)
                 /\ slist_for_each(next', h) = slist_for_each(next, h)
                 /\ \A off \in Offs :
                        slist_top_(next', h, off) = slist_top_(next, h, off)
      ]_vars

\* A loop over three entries that was broken out of after two.
C12_Witness ==
    /\ it.pc = "done"
    /\ it.brk
    /\ Len(it.out) = 2
    /\ Len(T(it.h)) = 3

\* C14: slist_next on an entry of a list gives the entry that follows it in
\* the list, gives NULL exactly when the entry is the last one, and never
\* gives the list head as if it were an entry.
C14_NextElement ==
    call.op = "next" =>
        LET t == T(call.h)
            k == IndexOf(t, call.n)
        IN  /\ call.n \in Range(t)
            /\ k < Len(t) => call.ret = slist_node_to_off_(t[k + 1], call.off)
            /\ call.ret = NULL <=> k = Len(t)
            /\ call.ret # slist_node_to_off_(call.h, call.off)

\* slist_next was called on the last of three entries, and gave NULL.
C14_Witness ==
    /\ call.op = "next"
    /\ Len(T(call.h)) = 3
    /\ call.n = T(call.h)[3]
    /\ call.ret = NULL

\* C15: slist_head_init on a head in any state, uninitialised, empty or not
\* empty, leaves the head's link pointing at itself and the list empty; a
\* second slist_head_init changes nothing; and no entry's next is written.
C15_InitEmptyIdempotent ==
    [][\A h \in Heads :
          HeadInit(h) =>
              /\ next'[h] = h
              /\ slist_empty_(next', h)
              /\ slist_head_init(next', h) = next'
              /\ \A e \in Node \ {h} : next'[e] = next[e]
      ]_vars

\* slist_head_init was called on a head that had entries: an entry still
\* points at the head, and the list is empty.
C15_Witness ==
    /\ call.op = "init"
    /\ call.h \notin StaticHeads
    /\ slist_empty_(next, call.h)
    /\ \E e \in Elems : next[e] = call.h

\* C18: slist_add stores into the head's link and into the new link's next
\* and nowhere else: every entry already in the list keeps its next, so the
\* entry that was last is still last and its next is still the head.
C18_PrependFrame ==
    [][\A h \in Heads, n \in Elems :
          Add(h, n) =>
              /\ \A e \in Node \ {h, n} : next'[e] = next[e]
              /\ \A e \in Range(T(h)) : next'[e] = next[e]
              /\ T(h) # <<>> =>
                     LET last == T(h)[Len(T(h))]
                     IN  /\ next'[last] = h
                         /\ T(h)'[Len(T(h)')] = last
      ]_vars

\* A third entry was prepended, and the entry added first is still the last.
C18_Witness ==
    /\ call.op = "add"
    /\ Len(T(call.h)) = 3
    /\ T(call.h)[1] = call.n
    /\ next[T(call.h)[3]] = call.h

\* C20: slist_node_to_off_ and slist_node_from_off_ undo each other for every
\* address and offset, and what slist_top, slist_pop and slist_for_each give
\* for an entry is the address of its link minus the offset.
C20_OffsetArithmetic ==
    [][/\ \A n \in Addr, off \in Offs :
              /\ slist_node_from_off_(slist_node_to_off_(n, off), off) = n
              /\ slist_node_to_off_(slist_node_from_off_(n, off), off) = n
       /\ \A h \in Heads, off \in Offs :
              ((Top(h, off) \/ Pop(h, off)) /\ ~slist_empty_(next, h))
                  => call'.ret = next[h] - off
       /\ it'.pc # "idle" =>
              \A k \in 1..Len(it'.out) :
                  /\ k <= Len(slist_for_each(next', it'.h))
                  /\ it'.out[k] = slist_for_each(next', it'.h)[k] - it'.off
      ]_vars

\* slist_pop with offset 8 gave the record of an entry, 8 below its link.
C20_Witness ==
    /\ call.op = "pop"
    /\ call.off = 8
    /\ slist_node_from_off_(call.ret, call.off) \in Elems
    /\ call.ret \notin Elems

\* C13 as stated: the checker gives back the head or the link it was given on
\* every chain made by init, prepend, insert_after and pop_first, started
\* from the head or from a live entry, no call ending in abort(); and without
\* CCAN_SLIST_DEBUG it gives back its argument whatever the chain.
C13_CheckerSucceeds ==
    /\ \A n \in Node, abortstr \in AbortStrs :
           /\ slist_check_node(n, abortstr) = n
           /\ slist_check(n, abortstr) = n
    /\ ~Aborted
    /\ call.op = "check" => call.ret = call.h
    /\ call.op = "check_node" => call.ret = call.n

\* The checker finds prev corrupt in one of the links it reads.
Detects(mem, pv, node) ==
    \E a \in DOMAIN pv : mem[a] \in DOMAIN pv /\ pv[mem[a]] # a

\* C19: when the checker of the debug build finds an inconsistency, a
\* non-null abort string ends the process in abort(); with a null abort
\* string slist_check_node returns NULL and the process goes on; and
\* slist_check returns NULL exactly when slist_check_node of the head's link
\* does, and the head otherwise.
C19_DetectionOutcome ==
    /\ [][~Aborted]_vars
    /\ [](\A node \in inited \cup {e \in Elems : InSomeList(next, e)},
             abortstr \in AbortStrs :
              \A pv \in PrevReads(next, node) :
                  LET r == slist_check_node_debug(next, pv, node, abortstr)
                  IN  /\ Detects(next, pv, node) =>
                             r = IF abortstr # NULL THEN ABORTED ELSE NULL
                      /\ (node \in Heads /\ r # ABORTED) =>
                             slist_check_debug(next, pv, node, abortstr) =
                                 IF r = NULL THEN NULL ELSE node)
    /\ [](call.op = "check_node" => call.ret \in {NULL, call.n})
    /\ [](call.op = "check" => call.ret \in {NULL, call.h})

\* slist_check_node with a null abort string returned NULL for an entry of a
\* list, and the process goes on.
C19_Witness ==
    /\ call.op = "check_node"
    /\ call.ret = NULL
    /\ InSomeList(next, call.n)
    /\ ~Aborted

\* Each operation of the typed list that has code does to the memory, and
\* gives, what the operation of slist.h does and gives with the bound offset.
WrapperAgrees ==
    \A h \in inited, off \in Offs :
        /\ tslist2_init(next, h) = slist_head_init(next, h)
        /\ tslist2_empty(next, h) = slist_empty_(next, h)
        /\ tslist2_top(next, h, off) = slist_top_(next, h, off)
        /\ tslist2_pop(next, h, off) = slist_pop_(next, h, off)
        /\ \A n \in Elems :
               /\ tslist2_add(next, h, slist_node_to_off_(n, off), off)
                      = slist_add_(next, h, n)
               /\ \A p \in Reach(next, h) :
                      tslist2_add_after(next, h, slist_node_to_off_(p, off),
                                        slist_node_to_off_(n, off), off)
                          = slist_add_after_(next, h, p, n)
        /\ call.op = "for_each" =>
               it.orig = slist_for_each(next, tslist2_raw(call.h))

\* C16 as stated: each of tslist2_init, tslist2_add, tslist2_add_after,
\* tslist2_del_from, tslist2_empty, tslist2_top, tslist2_pop and
\* tslist2_for_each calls an operation that slist.h defines, and leaves the
\* chain, and gives the result, that this operation does with the bound
\* offset, NULL on an empty list included.
C16_WrapperMirrors ==
    /\ \A w \in DOMAIN Delegates : Delegates[w] \in RawOps
    /\ WrapperAgrees

\* C21: slist_pop stores into the head's link and nowhere else: the entry it
\* removes keeps its next, which still points at the entry that followed it,
\* every entry that stays keeps its next, and the removed entry is no longer
\* reached from the head.
C21_PopFrame ==
    [][\A h \in Heads, off \in Offs :
          (Pop(h, off) /\ ~slist_empty_(next, h)) =>
              LET n == next[h]
              IN  /\ \A e \in Node \ {h} : next'[e] = next[e]
                  /\ next'[n] = next[n]
                  /\ next'[h] = next[n]
                  /\ n \notin Reach(next', h)
                  /\ Reach(next', h) = Reach(next, h) \ {n}
      ]_vars

\* slist_pop removed the first of three entries: its next still points at
\* the entry that is now first, and the head no longer reaches it.
C21_Witness ==
    /\ call.op = "pop"
    /\ call.ret # NULL
    /\ Len(T(call.h)) = 2
    /\ next[slist_node_from_off_(call.ret, call.off)] = next[call.h]
    /\ slist_node_from_off_(call.ret, call.off) \notin Reach(next, call.h)

\* The step prepends onto another list the entry that the call before it
\* popped.
MovesPopped ==
    /\ call.op = "pop"
    /\ call.ret # NULL
    /\ call'.op = "add"
    /\ call'.h # call.h
    /\ call'.n = slist_node_from_off_(call.ret, call.off)
    /\ next' = slist_add_(next, call'.h, call'.n)

\* C22: while no entry is in two lists, a step of an operation on one head
\* leaves the link of every other head and the next of each of its entries
\* as they were; and an entry popped from one list and then prepended to
\* another leaves both lists closed chains and is in exactly one of them.
C22_ListsIndependent ==
    [][/\ \A h2 \in inited \ {call'.h} :
              /\ next'[h2] = next[h2]
              /\ \A e \in Reach(next, h2) : next'[e] = next[e]
              /\ slist_for_each(next', h2) = slist_for_each(next, h2)
       /\ MovesPopped =>
              /\ WellFormed(next', call.h)
              /\ WellFormed(next', call'.h)
              /\ call'.n \in Reach(next', call'.h)
              /\ call'.n \notin Reach(next', call.h)
              /\ Cardinality({h \in inited : call'.n \in Reach(next', h)}) = 1
      ]_vars

\* An entry was prepended to a list of one entry while the other list holds
\* an entry too: the lists share no entry and the new entry is in one only.
C22_Witness ==
    /\ call.op = "add"
    /\ Len(T(call.h)) = 2
    /\ \E h2 \in inited \ {call.h} :
           /\ Len(T(h2)) = 1
           /\ Range(T(h2)) \cap Range(T(call.h)) = {}
           /\ next[call.n] \notin Range(T(h2)) \cup {h2}

\* C23: slist_add_after with the head's own link as the entry to add after
\* does what slist_add does: from the same memory the two leave the same
\* memory, whichever of them the caller ran.
C23_AddAfterHeadIsAdd ==
    [][\A h \in Heads, n \in Elems :
          /\ AddAfter(h, h, n) =>
                 /\ next' = slist_add_(next, h, n)
                 /\ slist_for_each(next', h) = <<n>> \o slist_for_each(next, h)
          /\ Add(h, n) => next' = slist_add_after_(next, h, h, n)
      ]_vars

\* slist_add_after was given the head's link and a new entry, on a list of
\* two entries: the new entry is the first of three.
C23_Witness ==
    /\ call.op = "add_after"
    /\ call.p = call.h
    /\ Len(T(call.h)) = 3
    /\ T(call.h)[1] = call.n

\* C24: without CCAN_SLIST_DEBUG what slist_add_after(h, p, n) does depends
\* on p and n and not on h: it stores into the next of p and of n and nowhere
\* else, so when p is not reached from h, being an entry popped earlier, an
\* entry of another list or an entry never added, and the new entry n is not
\* in the list h, the traversal of h is what it was and does not reach n.
C24_AddAfterIgnoresHead ==
    [][\A h \in Heads, p \in Elems, n \in Elems :
          AddAfter(h, p, n) =>
              /\ \A h2 \in Heads : next' = slist_add_after_(next, h2, p, n)
              /\ \A e \in Node \ {p, n} : next'[e] = next[e]
              /\ (p \notin Reach(next, h) /\ n \notin Reach(next, h)) =>
                     /\ slist_for_each(next', h) = slist_for_each(next, h)
                     /\ n \notin Reach(next', h)
      ]_vars

\* slist_add_after was given the list h and an entry p of the other list:
\* the new entry follows p in the other list and h, which has an entry of
\* its own, does not reach it.
C24_Witness ==
    /\ call.op = "add_after"
    /\ call.p \in Elems
    /\ call.p \notin Reach(next, call.h)
    /\ call.n \notin Reach(next, call.h)
    /\ Len(T(call.h)) = 1
    /\ \E h2 \in inited \ {call.h} :
           /\ call.p \in Reach(next, h2)
           /\ next[call.p] = call.n
           /\ call.n \in Reach(next, h2)

====
